---- MODULE Spec2Model ----
(***************************************************************************)
(* Model of the nrfxlib modem helpers (src/src/modem.rs): wait_for_lte,    *)
(* on, flight_mode, off, set_system_mode and get_system_mode, together     *)
(* with the AT transport (crate::at::AtSocket) and the command executor    *)
(* (crate::at::send_at_command) they call.                                 *)
(*                                                                         *)
(* Text is a string; lines(), trim() and starts_with() are computed on its *)
(* characters with Len, SubSeq and \o.                                     *)
(***************************************************************************)
EXTENDS Integers, Sequences, FiniteSets, TLC

(***************************************************************************)
(* Bounds of the model.                                                    *)
(***************************************************************************)
\* lines the modem produces during one operation
MaxLines == 3
\* lines the transport puts in one received chunk
MaxChunkLines == 2
\* "no data" results of recv during one operation
MaxNone == 2
\* byte-stream transport: lines the modem produces during one wait_for_lte
MaxStreamLines == 2
\* byte-stream transport: chunks the transport cuts the stream into
MaxStreamChunks == 2

(***************************************************************************)
(* Text helpers.                                                           *)
(***************************************************************************)
Whitespace == {" ", "\t", "\r", "\n"}

\* the character of s at position i
CharAt(s, i) == SubSeq(s, i, i)

Min(S) == CHOOSE x \in S : \A y \in S : x <= y

Max(S) == CHOOSE x \in S : \A y \in S : y <= x

\* str::starts_with
StartsWith(s, p) == Len(s) >= Len(p) /\ SubSeq(s, 1, Len(p)) = p

\* str::trim: strips leading and trailing whitespace
Trim(s) ==
    LET keep == {i \in 1..Len(s) : CharAt(s, i) \notin Whitespace}
    IN  IF keep = {} THEN "" ELSE SubSeq(s, Min(keep), Max(keep))

\* str::split_terminator('\n'), the iterator under str::lines
RECURSIVE SplitTerminator(_)
SplitTerminator(s) ==
    IF s = "" THEN <<>>
    ELSE LET nl == {i \in 1..Len(s) : CharAt(s, i) = "\n"}
         IN  IF nl = {} THEN <<s>>
             ELSE <<SubSeq(s, 1, Min(nl) - 1)>>
                  \o SplitTerminator(SubSeq(s, Min(nl) + 1, Len(s)))

\* the line without the "\r" that str::lines strips from its end
StripCR(l) ==
    IF l # "" /\ CharAt(l, Len(l)) = "\r" THEN SubSeq(l, 1, Len(l) - 1) ELSE l

\* str::lines
Lines(s) ==
    LET parts == SplitTerminator(s)
    IN  [i \in 1..Len(parts) |-> StripCR(parts[i])]

\* `for line in s.lines() { let line = line.trim(); ...`
TrimmedLines(s) ==
    LET ls == Lines(s)
    IN  [i \in 1..Len(ls) |-> Trim(ls[i])]

(***************************************************************************)
(* Result<_, Error> values: <<kind, value, line>>.                         *)
(***************************************************************************)
\* Ok(v); v is "unit" for Ok(())
Ok(v) == <<"Ok", v, "">>

\* Err(e) of an error that carries no text
Err(e) == <<"Err", e, "">>

\* the failure of a command the modem rejected, with the terminal line
CommandRejected(line) == <<"Err", "CommandRejected", line>>

\* no value: the operation has not returned
NoRet == <<"none", "none", "">>

(***************************************************************************)
(* The AT vocabulary of modem.rs.                                          *)
(***************************************************************************)
\* slip: the list also accepts "+CEREG: 2" (searching)
connected_indications_searching ==
    <<"+CEREG: 1", "+CEREG:1", "+CEREG: 5", "+CEREG:5", "+CEREG: 2">>

\* line 74
connected_indications == <<"+CEREG: 1", "+CEREG:1", "+CEREG: 5", "+CEREG:5">>

\* the subscription wait_for_lte writes
CMD_CEREG == "AT+CEREG=2"

CMD_ON == "AT+CFUN=1"

\* slip: flight_mode sends the command of off
CMD_FLIGHT_off == "AT+CFUN=0"

CMD_FLIGHT == "AT+CFUN=4"

CMD_OFF == "AT+CFUN=0"

CMD_QUERY == "AT%XSYSTEMMODE?"

SystemMode == {"LteM", "NbIot", "GnssOnly", "LteMAndGnss", "NbIotAndGnss"}

\* slip: GnssOnly sends the fields of LteMAndGnss
at_command_gnss_slip(mode) ==
    CASE mode = "LteM"         -> "AT%XSYSTEMMODE=1,0,0,0"
      [] mode = "NbIot"        -> "AT%XSYSTEMMODE=0,1,0,0"
      [] mode = "GnssOnly"     -> "AT%XSYSTEMMODE=1,0,1,0"
      [] mode = "LteMAndGnss"  -> "AT%XSYSTEMMODE=1,0,1,0"
      [] mode = "NbIotAndGnss" -> "AT%XSYSTEMMODE=0,1,1,0"

\* slip: NbIotAndGnss sends the reserved field as 1
at_command_reserved_slip(mode) ==
    CASE mode = "LteM"         -> "AT%XSYSTEMMODE=1,0,0,0"
      [] mode = "NbIot"        -> "AT%XSYSTEMMODE=0,1,0,0"
      [] mode = "GnssOnly"     -> "AT%XSYSTEMMODE=0,0,1,0"
      [] mode = "LteMAndGnss"  -> "AT%XSYSTEMMODE=1,0,1,0"
      [] mode = "NbIotAndGnss" -> "AT%XSYSTEMMODE=0,1,1,1"

\* the match of set_system_mode
at_command(mode) ==
    CASE mode = "LteM"         -> "AT%XSYSTEMMODE=1,0,0,0"
      [] mode = "NbIot"        -> "AT%XSYSTEMMODE=0,1,0,0"
      [] mode = "GnssOnly"     -> "AT%XSYSTEMMODE=0,0,1,0"
      [] mode = "LteMAndGnss"  -> "AT%XSYSTEMMODE=1,0,1,0"
      [] mode = "NbIotAndGnss" -> "AT%XSYSTEMMODE=0,1,1,0"

\* slip: the closure compares the whole line, preference digit 0 included
on_line_get_exact(res, result) ==
    IF res = "%XSYSTEMMODE: 1,0,0,0" THEN Ok("LteM")
    ELSE IF res = "%XSYSTEMMODE: 0,1,0,0" THEN Ok("NbIot")
    ELSE IF res = "%XSYSTEMMODE: 0,0,1,0" THEN Ok("GnssOnly")
    ELSE IF res = "%XSYSTEMMODE: 1,0,1,0" THEN Ok("LteMAndGnss")
    ELSE IF res = "%XSYSTEMMODE: 0,1,1,0" THEN Ok("NbIotAndGnss")
    ELSE result

\* slip: a final `else` puts the failure back on a line of no known prefix
on_line_get_else_resets(res, result) ==
    IF StartsWith(res, "%XSYSTEMMODE: 1,0,0,") THEN Ok("LteM")
    ELSE IF StartsWith(res, "%XSYSTEMMODE: 0,1,0,") THEN Ok("NbIot")
    ELSE IF StartsWith(res, "%XSYSTEMMODE: 0,0,1,") THEN Ok("GnssOnly")
    ELSE IF StartsWith(res, "%XSYSTEMMODE: 1,0,1,") THEN Ok("LteMAndGnss")
    ELSE IF StartsWith(res, "%XSYSTEMMODE: 0,1,1,") THEN Ok("NbIotAndGnss")
    ELSE Err("UnrecognisedValue")

\* the closure of get_system_mode: the new value of `result` after line res
on_line_get(res, result) ==
    IF StartsWith(res, "%XSYSTEMMODE: 1,0,0,") THEN Ok("LteM")
    ELSE IF StartsWith(res, "%XSYSTEMMODE: 0,1,0,") THEN Ok("NbIot")
    ELSE IF StartsWith(res, "%XSYSTEMMODE: 0,0,1,") THEN Ok("GnssOnly")
    ELSE IF StartsWith(res, "%XSYSTEMMODE: 1,0,1,") THEN Ok("LteMAndGnss")
    ELSE IF StartsWith(res, "%XSYSTEMMODE: 0,1,1,") THEN Ok("NbIotAndGnss")
    ELSE result

(***************************************************************************)
(* The modem and the transport.                                            *)
(***************************************************************************)
\* the terminal success token
OK == "OK"

\* the terminal error token
ERROR == "ERROR"

\* a terminal error line that carries more than the token
ERROR_TEXT == "ERROR: 5"

\* unsolicited notifications: searching, not registered, and a verbose one
CEREG_SEARCHING == "+CEREG: 2"

CEREG_IDLE == "+CEREG: 0"

CEREG_VERBOSE == "+CEREG: 5,7"

\* the radio configurations the modem can hold: <<ltem, nbiot, gnss>>
Configs ==
    { <<"1", "0", "0">>, <<"0", "1", "0">>, <<"0", "0", "1">>,
      <<"1", "0", "1">>, <<"0", "1", "1">> }

\* the values of the trailing LTE/NB-IoT preference digit
PrefDigits == {"0", "2"}

\* the modem reads the fields of "AT%XSYSTEMMODE=l,n,g,p"
ParseSet(c) == <<CharAt(c, 16), CharAt(c, 18), CharAt(c, 20)>>

IsSetCommand(c) == StartsWith(c, "AT%XSYSTEMMODE=") /\ Len(c) = 22

\* the modem's answer to the query: "%XSYSTEMMODE: a,b,c,d"
SysLine(f, d) == "%XSYSTEMMODE: " \o f[1] \o "," \o f[2] \o "," \o f[3] \o "," \o d

\* a configuration other than f
OtherConfig(f) == IF f = <<"1", "0", "0">> THEN <<"0", "1", "1">> ELSE <<"1", "0", "0">>

\* the lines the modem may produce while operation o runs
ModemLines(o, st) ==
    IF o = "wait_for_lte"
    THEN { "+CEREG: 1", "+CEREG:1", "+CEREG: 5", "+CEREG:5",
           CEREG_IDLE, CEREG_SEARCHING, CEREG_VERBOSE, OK }
    ELSE IF o = "get_system_mode"
    THEN { OK, ERROR }
         \cup { SysLine(st, d) : d \in PrefDigits }
         \cup { SysLine(OtherConfig(st), "0"), SysLine(<<"9", "9", "9">>, "9") }
    ELSE { OK, ERROR, ERROR_TEXT, CEREG_SEARCHING, "" }

\* how the transport's text frames a line: <<padding, terminator>>
Framings == { <<"", "\n">>, <<"", "\r\n">>, <<" ", "\r\n">> }

\* the sequences of 1..n lines over the set V
LineSeqs(V, n) == UNION { [1..k -> V] : k \in 1..n }

\* the line sequences of the chunks the transport can deliver to operation o
ReceivableChunks(o) ==
    UNION { LineSeqs(ModemLines(o, st), MaxChunkLines) : st \in Configs }

\* the bytes of one chunk: every line padded and terminated
RECURSIVE Encode(_, _, _)
Encode(ls, term, pad) ==
    IF ls = <<>> THEN ""
    ELSE pad \o Head(ls) \o pad \o term \o Encode(Tail(ls), term, pad)

(***************************************************************************)
(* State.                                                                  *)
(***************************************************************************)
VARIABLES
    op,          \* the operation the caller is in, "none" before the first
    arg,         \* the SystemMode passed to set_system_mode, else "none"
    cmd,         \* the command the operation writes
    pc,          \* "idle", "open", "write", "recv" (the loop), "done"
    ret,         \* what the operation returned
    written,     \* the commands written to the session, in order
    nRecv,       \* calls of recv
    nNone,       \* recv results Ok(None)
    nWfe,        \* executions of the wait-for-event suspension
    produced,    \* the lines the modem produced during the operation
    chunkLines,  \* wait_for_lte: the lines of the chunk received last
    calls,       \* the lines passed to the on_line closure, in order
    result,      \* the local `result` of get_system_mode
    sessionOpen, \* an AtSocket exists
    execRet,     \* what send_at_command returned to the operation
    lastEv,      \* the outcome of the last transport call of this operation
    stored,      \* the radio configuration the modem holds
    lastSet,     \* the mode of the last set_system_mode, if it returned Ok
    examined,    \* wait_for_lte: the lines of the last chunk that reached line 82
    pending,     \* bytes the modem produced that the transport has not delivered
    sliceEnd,    \* wait_for_lte: the usize `length - 1` computed last
    fault        \* "none", or the panic that stopped the program

vars == << op, arg, cmd, pc, ret, written, nRecv, nNone, nWfe, produced,
           chunkLines, calls, result, sessionOpen, execRet, lastEv,
           stored, lastSet, examined, pending, sliceEnd, fault >>

Init ==
    /\ op = "none"
    /\ arg = "none"
    /\ cmd = ""
    /\ pc = "idle"
    /\ ret = NoRet
    /\ written = <<>>
    /\ nRecv = 0
    /\ nNone = 0
    /\ nWfe = 0
    /\ produced = <<>>
    /\ chunkLines = <<>>
    /\ calls = <<>>
    /\ result = Err("UnrecognisedValue")
    /\ sessionOpen = FALSE
    /\ execRet = NoRet
    /\ lastEv = "none"
    /\ stored = <<"1", "0", "0">>
    /\ lastSet = "none"
    /\ examined = <<>>
    /\ pending = ""
    /\ sliceEnd = << 0, 0 >>
    /\ fault = "none"

(***************************************************************************)
(* The operations that go through the command executor.                   *)
(***************************************************************************)
ExecOps == {"on", "flight_mode", "off", "set_system_mode", "get_system_mode"}

(***************************************************************************)
(* The caller enters an operation; one caller, one operation at a time.    *)
(***************************************************************************)
Begin(o, a, c) ==
    /\ pc = "idle"
    /\ op' = o
    /\ arg' = a
    /\ cmd' = c
    /\ pc' = "open"
    /\ UNCHANGED << ret, written, nRecv, nNone, nWfe, produced, chunkLines,
                    calls, result, sessionOpen, execRet, lastEv, stored,
                    lastSet >>
    /\ UNCHANGED << examined, pending, sliceEnd, fault >>

Call_wait_for_lte == Begin("wait_for_lte", "none", CMD_CEREG)

Call_on == Begin("on", "none", CMD_ON)

Call_flight_mode == Begin("flight_mode", "none", CMD_FLIGHT)

Call_off == Begin("off", "none", CMD_OFF)

Call_set_system_mode == \E mode \in SystemMode : Begin("set_system_mode", mode, at_command(mode))

Call_get_system_mode == Begin("get_system_mode", "none", CMD_QUERY)

(***************************************************************************)
(* Leaving an operation: the value goes to the caller and the session, if  *)
(* one was opened, is dropped with the operation's scope.  A modem that    *)
(* has acknowledged a configuration with OK holds it from then on.         *)
(***************************************************************************)
\* slip: the session is forgotten, not dropped, and stays open
Return_leaks(v) ==
    /\ pc' = "done"
    /\ ret' = v
    /\ sessionOpen' = sessionOpen
    /\ lastSet' = IF op = "set_system_mode" /\ v = Ok("unit") THEN arg ELSE lastSet
    /\ stored' = IF v = Ok("unit") /\ written # <<>> /\ IsSetCommand(written[1])
                 THEN ParseSet(written[1])
                 ELSE stored

Return(v) ==
    /\ pc' = "done"
    /\ ret' = v
    /\ sessionOpen' = FALSE
    /\ lastSet' = IF op = "set_system_mode" /\ v = Ok("unit") THEN arg ELSE lastSet
    /\ stored' = IF v = Ok("unit") /\ written # <<>> /\ IsSetCommand(written[1])
                 THEN ParseSet(written[1])
                 ELSE stored

\* the operation is over: its locals are gone and the caller goes on
Leave ==
    /\ pc = "done"
    /\ op' = "none"
    /\ arg' = "none"
    /\ cmd' = ""
    /\ pc' = "idle"
    /\ ret' = NoRet
    /\ written' = <<>>
    /\ nRecv' = 0
    /\ nNone' = 0
    /\ nWfe' = 0
    /\ produced' = <<>>
    /\ chunkLines' = <<>>
    /\ calls' = <<>>
    /\ result' = Err("UnrecognisedValue")
    /\ execRet' = NoRet
    /\ lastEv' = "none"
    /\ examined' = <<>>
    /\ pending' = ""
    /\ sliceEnd' = << 0, 0 >>
    /\ UNCHANGED << sessionOpen, stored, lastSet, fault >>

(***************************************************************************)
(* wait_for_lte.                                                           *)
(***************************************************************************)
\* slip: two bytes are dropped
Slice_two(buf, length) == SubSeq(buf, 1, length - 2)

\* `&buf[0..length - 1]`: the received bytes but the last
Slice(buf, length) == SubSeq(buf, 1, length - 1)

\* the two nested for loops: some trimmed line starts with an indication
BreaksOuter(s) ==
    LET lines == TrimmedLines(s)
    IN  \E i \in 1..Len(lines) : \E k \in 1..Len(connected_indications) :
            StartsWith(lines[i], connected_indications[k])

\* slip: the match only sets a flag and the rest of the chunk is gone through
ExaminedLines_whole_chunk(s) == TrimmedLines(s)

\* the lines that reach `debug!("RX {:?}", line)`: `break 'outer` leaves both
\* loops, so the lines after the first match are never taken from s.lines()
ExaminedLines(s) ==
    LET lines == TrimmedLines(s)
        hit   == {i \in 1..Len(lines) :
                     \E k \in 1..Len(connected_indications) :
                         StartsWith(lines[i], connected_indications[k])}
    IN  IF hit = {} THEN lines ELSE SubSeq(lines, 1, Min(hit))

\* what the loop body makes of each chunk the transport can deliver, by the
\* lines and the framing of the chunk: whether it breaks out of the loop, and
\* the lines it has examined
wait_for_lte_chunk ==
    [ ls \in ReceivableChunks("wait_for_lte"), fr \in Framings |->
        LET buf == Encode(ls, fr[2], fr[1])
            s   == Slice(buf, Len(buf))
        IN  [breaks |-> BreaksOuter(s), examined |-> ExaminedLines(s)] ] @@ <<>>

\* the lines of the next chunk: the modem produces at most MaxLines
NextChunks ==
    LineSeqs(ModemLines(op, stored), Min({MaxChunkLines, MaxLines - Len(produced)}))

\* `AtSocket::new()?` succeeds
WflOpen ==
    /\ op = "wait_for_lte" /\ pc = "open"
    /\ pc' = "write"
    /\ sessionOpen' = TRUE
    /\ lastEv' = "open_ok"
    /\ UNCHANGED << op, arg, cmd, ret, written, nRecv, nNone, nWfe, produced,
                    chunkLines, calls, result, execRet, stored, lastSet >>
    /\ UNCHANGED << examined, pending, sliceEnd, fault >>

\* `AtSocket::new()?` fails
WflOpenFails ==
    /\ op = "wait_for_lte" /\ pc = "open"
    /\ lastEv' = "open_err"
    /\ Return(Err("TransportUnavailable"))
    /\ UNCHANGED << op, arg, cmd, written, nRecv, nNone, nWfe, produced,
                    chunkLines, calls, result, execRet >>
    /\ UNCHANGED << examined, pending, sliceEnd, fault >>

\* `skt.write(b"AT+CEREG=2")?` succeeds
WflWrite ==
    /\ op = "wait_for_lte" /\ pc = "write"
    /\ pc' = "recv"
    /\ written' = Append(written, cmd)
    /\ lastEv' = "write_ok"
    /\ UNCHANGED << op, arg, cmd, ret, nRecv, nNone, nWfe, produced,
                    chunkLines, calls, result, sessionOpen, execRet, stored,
                    lastSet >>
    /\ UNCHANGED << examined, pending, sliceEnd, fault >>

\* `skt.write(b"AT+CEREG=2")?` fails
WflWriteFails ==
    /\ op = "wait_for_lte" /\ pc = "write"
    /\ lastEv' = "write_err"
    /\ Return(Err("TransportWriteError"))
    /\ UNCHANGED << op, arg, cmd, written, nRecv, nNone, nWfe, produced,
                    chunkLines, calls, result, execRet >>
    /\ UNCHANGED << examined, pending, sliceEnd, fault >>

\* slip: no data ends the loop
WflRecvNone_breaks ==
    /\ op = "wait_for_lte" /\ pc = "recv"
    /\ nNone < MaxNone
    /\ nRecv' = nRecv + 1
    /\ nNone' = nNone + 1
    /\ lastEv' = "recv_ok"
    /\ Return(Ok("unit"))
    /\ UNCHANGED << op, arg, cmd, written, nWfe, produced, chunkLines,
                    calls, result, execRet >>
    /\ UNCHANGED << examined, pending, sliceEnd, fault >>

\* slip: on "no data" the subscription is written again
WflRecvNone_resubscribes ==
    /\ op = "wait_for_lte" /\ pc = "recv"
    /\ nNone < MaxNone
    /\ nRecv' = nRecv + 1
    /\ nNone' = nNone + 1
    /\ nWfe' = nWfe + 1
    /\ written' = Append(written, cmd)
    /\ lastEv' = "recv_ok"
    /\ UNCHANGED << op, arg, cmd, pc, ret, produced, chunkLines,
                    calls, result, sessionOpen, execRet, stored, lastSet >>
    /\ UNCHANGED << examined, pending, sliceEnd, fault >>

\* recv returns Ok(None): wfe, then the loop goes round
WflRecvNone ==
    /\ op = "wait_for_lte" /\ pc = "recv"
    /\ nNone < MaxNone
    /\ nRecv' = nRecv + 1
    /\ nNone' = nNone + 1
    /\ nWfe' = nWfe + 1
    /\ lastEv' = "recv_ok"
    /\ UNCHANGED << op, arg, cmd, pc, ret, written, produced, chunkLines,
                    calls, result, sessionOpen, execRet, stored, lastSet >>
    /\ UNCHANGED << examined, pending, sliceEnd, fault >>

\* slip: the error of recv is dropped and the loop goes round
WflRecvFails_retried ==
    /\ op = "wait_for_lte" /\ pc = "recv"
    /\ nRecv < MaxLines + MaxNone
    /\ nRecv' = nRecv + 1
    /\ lastEv' = "recv_err"
    /\ UNCHANGED << op, arg, cmd, pc, ret, written, nNone, nWfe, produced,
                    chunkLines, calls, result, sessionOpen, execRet, stored,
                    lastSet >>
    /\ UNCHANGED << examined, pending, sliceEnd, fault >>

\* recv returns Err and `?` returns it
WflRecvFails ==
    /\ op = "wait_for_lte" /\ pc = "recv"
    /\ nRecv' = nRecv + 1
    /\ lastEv' = "recv_err"
    /\ Return(Err("TransportReadError"))
    /\ UNCHANGED << op, arg, cmd, written, nNone, nWfe, produced, chunkLines,
                    calls, result, execRet >>
    /\ UNCHANGED << examined, pending, sliceEnd, fault >>

\* recv returns Ok(Some(length)): the lines of the chunk are examined
WflRecvChunk ==
    /\ op = "wait_for_lte" /\ pc = "recv"
    /\ Len(produced) < MaxLines
    /\ \E ls \in NextChunks : \E fr \in Framings :
         LET body == wait_for_lte_chunk[ls, fr]
         IN  /\ produced' = produced \o ls
             /\ chunkLines' = ls
             /\ examined' = body.examined
             /\ nRecv' = nRecv + 1
             /\ lastEv' = "recv_ok"
             /\ IF body.breaks
                THEN Return(Ok("unit"))
                ELSE UNCHANGED << pc, ret, sessionOpen, lastSet, stored >>
    /\ UNCHANGED << op, arg, cmd, written, nNone, nWfe, calls, result, execRet >>
    /\ UNCHANGED << pending, sliceEnd, fault >>

(***************************************************************************)
(* wait_for_lte on a transport that cuts the modem's bytes anywhere.       *)
(***************************************************************************)
\* `let mut buf = [0u8; 128]`
BUF_LEN == 128

\* usize of the 32-bit target, kept as two 16-bit halves <<high, low>>
USIZE_HALF == 65536

\* `length - 1` where the build wraps on overflow: 0 - 1 is 0xFFFF_FFFF
WrappingSub1(length) ==
    LET hi == length \div USIZE_HALF
        lo == length % USIZE_HALF
    IN  IF lo > 0 THEN << hi, lo - 1 >>
        ELSE << (hi - 1) % USIZE_HALF, USIZE_HALF - 1 >>

\* the bounds check of `&buf[0..end]`
InBuf(end) == end[1] = 0 /\ end[2] <= BUF_LEN

\* the notifications the modem sends once subscribed
StreamLines == { "+CEREG: 1", "+CEREG:5", CEREG_SEARCHING, CEREG_VERBOSE }

\* the modem produces one more notification: its bytes wait in the transport
ModemEmits ==
    /\ op = "wait_for_lte" /\ pc = "recv"
    /\ Len(produced) < MaxStreamLines
    /\ \E l \in StreamLines : \E fr \in Framings :
         /\ produced' = Append(produced, l)
         /\ pending' = pending \o Encode(<<l>>, fr[2], fr[1])
    /\ UNCHANGED << op, arg, cmd, pc, ret, written, nRecv, nNone, nWfe,
                    chunkLines, calls, result, sessionOpen, execRet, lastEv,
                    stored, lastSet, examined, sliceEnd, fault >>

\* recv returns Ok(Some(length)) with the next `length` waiting bytes in buf.
\* With length = 0 the subtraction at line 79 overflows: a build with
\* overflow checks panics there, a build without them wraps and panics on
\* the range of the slice; either way the program stops.
WflRecvBytes ==
    /\ op = "wait_for_lte" /\ pc = "recv"
    /\ nRecv - nNone < MaxStreamChunks
    /\ \E length \in 0..Min({BUF_LEN, Len(pending)}) : \E overflow_checks \in BOOLEAN :
         LET buf == SubSeq(pending, 1, length)
         IN  /\ pending' = SubSeq(pending, length + 1, Len(pending))
             /\ nRecv' = nRecv + 1
             /\ lastEv' = "recv_ok"
             /\ IF length = 0 /\ overflow_checks
                THEN /\ fault' = "subtract_overflow"
                     /\ pc' = "panic"
                     /\ UNCHANGED << sliceEnd, examined, ret, sessionOpen, lastSet, stored >>
                ELSE IF ~InBuf(WrappingSub1(length))
                THEN /\ sliceEnd' = WrappingSub1(length)
                     /\ fault' = "slice_out_of_range"
                     /\ pc' = "panic"
                     /\ UNCHANGED << examined, ret, sessionOpen, lastSet, stored >>
                ELSE /\ sliceEnd' = WrappingSub1(length)
                     /\ examined' = ExaminedLines(Slice(buf, length))
                     /\ fault' = fault
                     /\ IF BreaksOuter(Slice(buf, length))
                        THEN Return(Ok("unit"))
                        ELSE UNCHANGED << pc, ret, sessionOpen, lastSet, stored >>
    /\ UNCHANGED << op, arg, cmd, written, nNone, nWfe, produced, chunkLines,
                    calls, result, execRet >>

(***************************************************************************)
(* The command executor, crate::at::send_at_command, and its callers.      *)
(***************************************************************************)
\* the closure an operation hands to the executor: `result` after the line
on_line(o, line, res) == IF o = "get_system_mode" THEN on_line_get(line, res) ELSE res

\* the trimmed lines the executor finds in each chunk the transport can
\* deliver, by the lines and the framing of the chunk
executor_chunk ==
    [ ls \in UNION { ReceivableChunks(o) : o \in ExecOps }, fr \in Framings |->
        TrimmedLines(Encode(ls, fr[2], fr[1])) ] @@ <<>>

\* slip: empty lines go to on_line too
RECURSIVE ExecLines_empty(_, _, _, _)
ExecLines_empty(o, lines, cs, res) ==
    IF lines = <<>> THEN [value |-> NoRet, calls |-> cs, result |-> res]
    ELSE LET line == Head(lines)
         IN  IF line = OK
             THEN [value |-> Ok("unit"), calls |-> cs, result |-> res]
             ELSE IF StartsWith(line, ERROR)
             THEN [value |-> CommandRejected(line), calls |-> cs, result |-> res]
             ELSE ExecLines_empty(o, Tail(lines), Append(cs, line), on_line(o, line, res))

\* slip: only the bare token "ERROR" is terminal
RECURSIVE ExecLines_bare(_, _, _, _)
ExecLines_bare(o, lines, cs, res) ==
    IF lines = <<>> THEN [value |-> NoRet, calls |-> cs, result |-> res]
    ELSE LET line == Head(lines)
         IN  IF line = OK
             THEN [value |-> Ok("unit"), calls |-> cs, result |-> res]
             ELSE IF line = ERROR
             THEN [value |-> CommandRejected(line), calls |-> cs, result |-> res]
             ELSE IF line # ""
             THEN ExecLines_bare(o, Tail(lines), Append(cs, line), on_line(o, line, res))
             ELSE ExecLines_bare(o, Tail(lines), cs, res)

\* the executor goes through the trimmed lines of a chunk: "OK" ends with
\* success, a line that starts with "ERROR" ends with a failure that carries
\* it, any other non-empty line goes to on_line
RECURSIVE ExecLines(_, _, _, _)
ExecLines(o, lines, cs, res) ==
    IF lines = <<>> THEN [value |-> NoRet, calls |-> cs, result |-> res]
    ELSE LET line == Head(lines)
         IN  IF line = OK
             THEN [value |-> Ok("unit"), calls |-> cs, result |-> res]
             ELSE IF StartsWith(line, ERROR)
             THEN [value |-> CommandRejected(line), calls |-> cs, result |-> res]
             ELSE IF line # ""
             THEN ExecLines(o, Tail(lines), Append(cs, line), on_line(o, line, res))
             ELSE ExecLines(o, Tail(lines), cs, res)

\* on, flight_mode, off, set_system_mode: `send_at_command(..)?; Ok(())`
command_ret(e) == IF e[1] = "Err" THEN e ELSE Ok("unit")

\* slip: the `?` is missing and `result` is returned whatever happened
get_system_mode_ret_unchecked(e, res) == res

\* get_system_mode: `send_at_command(..)?; result`
get_system_mode_ret(e, res) == IF e[1] = "Err" THEN e ELSE res

\* the executor returned e to operation o: what o returns
CallerRet(o, e, res) ==
    IF o = "get_system_mode" THEN get_system_mode_ret(e, res) ELSE command_ret(e)

\* the executor opens its session
ExecOpen ==
    /\ op \in ExecOps /\ pc = "open"
    /\ pc' = "write"
    /\ sessionOpen' = TRUE
    /\ lastEv' = "open_ok"
    /\ UNCHANGED << op, arg, cmd, ret, written, nRecv, nNone, nWfe, produced,
                    chunkLines, calls, result, execRet, stored, lastSet >>
    /\ UNCHANGED << examined, pending, sliceEnd, fault >>

\* the session cannot be opened: the executor fails at once
ExecOpenFails ==
    /\ op \in ExecOps /\ pc = "open"
    /\ lastEv' = "open_err"
    /\ execRet' = Err("TransportUnavailable")
    /\ Return(CallerRet(op, Err("TransportUnavailable"), result))
    /\ UNCHANGED << op, arg, cmd, written, nRecv, nNone, nWfe, produced,
                    chunkLines, calls, result >>
    /\ UNCHANGED << examined, pending, sliceEnd, fault >>

\* the executor writes the command
ExecWrite ==
    /\ op \in ExecOps /\ pc = "write"
    /\ pc' = "recv"
    /\ written' = Append(written, cmd)
    /\ lastEv' = "write_ok"
    /\ UNCHANGED << op, arg, cmd, ret, nRecv, nNone, nWfe, produced,
                    chunkLines, calls, result, sessionOpen, execRet, stored,
                    lastSet >>
    /\ UNCHANGED << examined, pending, sliceEnd, fault >>

\* slip: the failure of the write is ignored and the executor reads on
ExecWriteFails_ignored ==
    /\ op \in ExecOps /\ pc = "write"
    /\ lastEv' = "write_err"
    /\ pc' = "recv"
    /\ UNCHANGED << op, arg, cmd, ret, written, nRecv, nNone, nWfe, produced,
                    chunkLines, calls, result, sessionOpen, execRet, stored,
                    lastSet >>
    /\ UNCHANGED << examined, pending, sliceEnd, fault >>

\* the write fails: the executor fails at once
ExecWriteFails ==
    /\ op \in ExecOps /\ pc = "write"
    /\ lastEv' = "write_err"
    /\ execRet' = Err("TransportWriteError")
    /\ Return(CallerRet(op, Err("TransportWriteError"), result))
    /\ UNCHANGED << op, arg, cmd, written, nRecv, nNone, nWfe, produced,
                    chunkLines, calls, result >>
    /\ UNCHANGED << examined, pending, sliceEnd, fault >>

\* no data: the executor yields and retries
ExecRecvNone ==
    /\ op \in ExecOps /\ pc = "recv"
    /\ nNone < MaxNone
    /\ nRecv' = nRecv + 1
    /\ nNone' = nNone + 1
    /\ nWfe' = nWfe + 1
    /\ lastEv' = "recv_ok"
    /\ UNCHANGED << op, arg, cmd, pc, ret, written, produced, chunkLines,
                    calls, result, sessionOpen, execRet, stored, lastSet >>
    /\ UNCHANGED << examined, pending, sliceEnd, fault >>

\* a read error ends the command
ExecRecvFails ==
    /\ op \in ExecOps /\ pc = "recv"
    /\ nRecv' = nRecv + 1
    /\ lastEv' = "recv_err"
    /\ execRet' = Err("TransportReadError")
    /\ Return(CallerRet(op, Err("TransportReadError"), result))
    /\ UNCHANGED << op, arg, cmd, written, nNone, nWfe, produced, chunkLines,
                    calls, result >>
    /\ UNCHANGED << examined, pending, sliceEnd, fault >>

\* a chunk: its lines are handled in order up to the terminal line
ExecRecvChunk ==
    /\ op \in ExecOps /\ pc = "recv"
    /\ Len(produced) < MaxLines
    /\ \E ls \in NextChunks : \E fr \in Framings :
         LET r == ExecLines(op, executor_chunk[ls, fr], calls, result)
         IN  /\ produced' = produced \o ls
             /\ nRecv' = nRecv + 1
             /\ lastEv' = "recv_ok"
             /\ calls' = r.calls
             /\ result' = r.result
             /\ execRet' = r.value
             /\ IF r.value # NoRet
                THEN Return(CallerRet(op, r.value, r.result))
                ELSE UNCHANGED << pc, ret, sessionOpen, lastSet, stored >>
    /\ UNCHANGED << op, arg, cmd, written, nNone, nWfe, chunkLines >>
    /\ UNCHANGED << examined, pending, sliceEnd, fault >>

Next ==
    \/ Call_wait_for_lte
    \/ Call_on
    \/ Call_flight_mode
    \/ Call_off
    \/ Call_set_system_mode
    \/ Call_get_system_mode
    \/ Leave
    \/ WflOpen
    \/ WflOpenFails
    \/ WflWrite
    \/ WflWriteFails
    \/ WflRecvNone
    \/ WflRecvFails
    \/ WflRecvChunk
    \/ ExecOpen
    \/ ExecOpenFails
    \/ ExecWrite
    \/ ExecWriteFails
    \/ ExecRecvNone
    \/ ExecRecvFails
    \/ ExecRecvChunk

Spec == Init /\ [][Next]_vars

NextBytes ==
    \/ Call_wait_for_lte
    \/ Leave
    \/ WflOpen
    \/ WflOpenFails
    \/ WflWrite
    \/ WflWriteFails
    \/ WflRecvNone
    \/ WflRecvFails
    \/ ModemEmits
    \/ WflRecvBytes

\* wait_for_lte alone, on the transport that cuts the bytes anywhere
SpecBytes == Init /\ [][NextBytes]_vars

(***************************************************************************)
(* Properties.                                                             *)
(***************************************************************************)
TransportErrors ==
    { Err("TransportUnavailable"), Err("TransportWriteError"), Err("TransportReadError") }

\* the four connected indications, as full lines
FourIndications == { "+CEREG: 1", "+CEREG:1", "+CEREG: 5", "+CEREG:5" }

\* the lines of the modem that begin with a connected indication
MatchingLines == FourIndications \cup { "+CEREG: 5,7" }

\* the terminal lines of the modem
TerminalLines == { "OK", "ERROR", "ERROR: 5" }

\* the position of the first terminal line the modem produced, or one past
\* the end when there is none yet
FirstTerminal ==
    LET at == {i \in 1..Len(produced) : produced[i] \in TerminalLines}
    IN  IF at = {} THEN Len(produced) + 1 ELSE Min(at)

\* the non-empty informational lines produced before the terminal line
InfoBeforeTerminal ==
    SelectSeq(SubSeq(produced, 1, FirstTerminal - 1), LAMBDA l : l # "")

\* C1: wait_for_lte returns Ok when the chunk just received holds one of the
\* four indications "+CEREG: 1", "+CEREG:1", "+CEREG: 5", "+CEREG:5" as a
\* full line, and stays in its loop on a chunk whose lines are "+CEREG: 0"
\* or "+CEREG: 2".
Thm_C1 ==
    (op = "wait_for_lte" /\ chunkLines # <<>>) =>
        /\ (\E i \in 1..Len(chunkLines) : chunkLines[i] \in FourIndications)
               => (pc = "done" /\ ret = Ok("unit"))
        /\ (\A i \in 1..Len(chunkLines) : chunkLines[i] \in {"+CEREG: 0", "+CEREG: 2"})
               => (ret # Ok("unit") /\ (lastEv = "recv_ok" => pc = "recv"))

Wit_C1 ==
    /\ op = "wait_for_lte" /\ pc = "done" /\ ret = Ok("unit")
    /\ Len(chunkLines) = 2
    /\ chunkLines[1] = "+CEREG: 2"
    /\ chunkLines[2] = "+CEREG:5"

\* C2: a "no data" result of recv never ends the loop of the executor or of
\* the monitor: the step that receives it leaves the operation receiving, not
\* returned, and suspended once more; an operation leaves its loop only in a
\* step that receives a line or a transport error.
Thm_C2 ==
    [][ /\ nNone' = nNone + 1 => (pc' = "recv" /\ ret' = NoRet /\ nWfe' = nWfe + 1)
        /\ nWfe' > nWfe => nNone' = nNone + 1
        /\ (pc = "recv" /\ pc' = "done")
               => (Len(produced') > Len(produced) \/ ret' = Err("TransportReadError")) ]_vars

Wit_C2 ==
    /\ op = "wait_for_lte" /\ pc = "done" /\ ret = Ok("unit")
    /\ nNone >= 2 /\ nWfe = nNone /\ nRecv = nNone + 1

\* C3: the executor has called on_line once for each non-empty informational
\* line the modem produced before the first terminal line, in that order, and
\* for no other line; when that terminal line is "OK" the executor has
\* returned success.
Thm_C3 ==
    op \in ExecOps =>
        /\ calls = InfoBeforeTerminal
        /\ (FirstTerminal <= Len(produced) /\ produced[FirstTerminal] = "OK")
               => (pc = "done" /\ execRet = Ok("unit"))
        /\ (FirstTerminal > Len(produced) /\ pc = "done") => execRet \in TransportErrors

Wit_C3 ==
    /\ op \in ExecOps /\ pc = "done" /\ execRet = Ok("unit")
    /\ Len(produced) = 3 /\ produced[3] = "OK"
    /\ Len(calls) = 2 /\ calls[1] # calls[2]

\* C4: when the first terminal line begins with "ERROR" the executor fails
\* with CommandRejected carrying that line; a line "ERROR" with nothing before
\* it fails with the text "ERROR" and without a handler call.
Thm_C4 ==
    (op \in ExecOps /\ FirstTerminal <= Len(produced)
        /\ StartsWith(produced[FirstTerminal], "ERROR")) =>
        /\ pc = "done"
        /\ execRet = CommandRejected(produced[FirstTerminal])
        /\ ret = execRet
        /\ (FirstTerminal = 1 /\ produced[1] = "ERROR")
               => (calls = <<>> /\ ret = <<"Err", "CommandRejected", "ERROR">>)

Wit_C4 ==
    /\ op \in ExecOps /\ pc = "done"
    /\ produced # <<>> /\ produced[1] = "ERROR" /\ calls = <<>>
    /\ ret = <<"Err", "CommandRejected", "ERROR">>

\* C5: when the session cannot be opened or the command cannot be written,
\* the executor has returned that failure, no recv was made and on_line was
\* not called.
Thm_C5 ==
    op \in ExecOps =>
        /\ lastEv = "open_err" =>
               (pc = "done" /\ execRet = Err("TransportUnavailable") /\ ret = execRet)
        /\ lastEv = "write_err" =>
               (pc = "done" /\ execRet = Err("TransportWriteError") /\ ret = execRet)
        /\ lastEv \in {"open_err", "write_err"} =>
               (nRecv = 0 /\ calls = <<>> /\ produced = <<>>)

Wit_C5 ==
    /\ op = "get_system_mode" /\ pc = "done" /\ lastEv = "write_err"
    /\ ret = Err("TransportWriteError") /\ nRecv = 0

\* C6: after a set_system_mode(m) that succeeded, when the modem answers the
\* query with the line "%XSYSTEMMODE: a,b,c,d" of the configuration it holds,
\* for any preference digit d, followed by "OK", get_system_mode returns Ok(m).
Thm_C6 ==
    ( /\ op = "get_system_mode" /\ pc = "done"
      /\ lastSet # "none"
      /\ \E d \in PrefDigits : produced = <<SysLine(stored, d), "OK">> )
    => ret = Ok(lastSet)

Wit_C6 ==
    /\ op = "get_system_mode" /\ pc = "done"
    /\ lastSet = "GnssOnly"
    /\ produced = <<SysLine(stored, "2"), "OK">>
    /\ ret = Ok("GnssOnly")

\* the field triples of the five modes
TripleOf(m) ==
    CASE m = "LteM"         -> <<"1", "0", "0">>
      [] m = "NbIot"        -> <<"0", "1", "0">>
      [] m = "GnssOnly"     -> <<"0", "0", "1">>
      [] m = "LteMAndGnss"  -> <<"1", "0", "1">>
      [] m = "NbIotAndGnss" -> <<"0", "1", "1">>

\* line l is "%XSYSTEMMODE: a,b,c," of mode m, followed by anything
HasTriple(l, m) ==
    /\ Len(l) >= 20
    /\ SubSeq(l, 1, 14) = "%XSYSTEMMODE: "
    /\ <<CharAt(l, 15), CharAt(l, 17), CharAt(l, 19)>> = TripleOf(m)
    /\ <<CharAt(l, 16), CharAt(l, 18), CharAt(l, 20)>> = <<",", ",", ",">>

\* C7: when the executor succeeds after one informational line,
\* get_system_mode returns the mode whose triple the line begins with,
\* whatever the trailing digit, and UnrecognisedValue for any other line;
\* with no line delivered it returns UnrecognisedValue.
Thm_C7 ==
    (op = "get_system_mode" /\ pc = "done" /\ execRet = Ok("unit")) =>
        /\ Len(calls) = 1 =>
               /\ \A m \in SystemMode : HasTriple(calls[1], m) => ret = Ok(m)
               /\ (\A m \in SystemMode : ~HasTriple(calls[1], m))
                      => ret = Err("UnrecognisedValue")
        /\ calls = <<>> => ret = Err("UnrecognisedValue")
        /\ calls = <<"%XSYSTEMMODE: 1,0,0,0">>
               => ret = Ok("LteM")
        /\ calls = <<"%XSYSTEMMODE: 0,1,1,2">>
               => ret = Ok("NbIotAndGnss")
        /\ calls = <<"%XSYSTEMMODE: 9,9,9,9">>
               => ret = Err("UnrecognisedValue")

Wit_C7 ==
    /\ op = "get_system_mode" /\ pc = "done" /\ execRet = Ok("unit")
    /\ calls = <<"%XSYSTEMMODE: 0,1,1,2">>
    /\ ret = Ok("NbIotAndGnss")

\* C8: set_system_mode writes the one command "AT%XSYSTEMMODE=l,n,g,0" of its
\* mode and no other, the five commands differ, and it returns Ok exactly when
\* the executor succeeded, else the executor's error, whatever lines on_line
\* was given.
Thm_C8 ==
    /\ \A m1, m2 \in SystemMode : at_command(m1) = at_command(m2) => m1 = m2
    /\ op = "set_system_mode" =>
        /\ Len(written) <= 1
        /\ (pc = "recv" \/ execRet \notin {NoRet, Err("TransportUnavailable"), Err("TransportWriteError")})
               => written = << "AT%XSYSTEMMODE=" \o TripleOf(arg)[1] \o "," \o TripleOf(arg)[2]
                               \o "," \o TripleOf(arg)[3] \o ",0" >>
        /\ pc = "done" =>
               /\ execRet # NoRet
               /\ ret = (IF execRet = Ok("unit") THEN Ok("unit") ELSE execRet)

Wit_C8 ==
    /\ op = "set_system_mode" /\ arg = "NbIotAndGnss" /\ pc = "done"
    /\ calls # <<>>
    /\ ret = Ok("unit")

\* C9: when the executor fails, get_system_mode returns the executor's error
\* and no SystemMode, also when a line of a known configuration had already
\* set `result`.
Thm_C9 ==
    (op = "get_system_mode" /\ pc = "done" /\ execRet[1] = "Err") =>
        (ret = execRet /\ ret[2] \notin SystemMode)

Wit_C9 ==
    /\ op = "get_system_mode" /\ pc = "done"
    /\ result[1] = "Ok"
    /\ execRet = <<"Err", "CommandRejected", "ERROR">>
    /\ ret = execRet

\* C10: wait_for_lte returns Ok only after a line that begins with a connected
\* indication was received, and Err only after open, write or recv failed;
\* while the transport has not failed and no such line was received it is
\* still in its loop.
Thm_C10 ==
    op = "wait_for_lte" =>
        /\ pc = "done" =>
               \/ /\ ret = Ok("unit")
                  /\ \E i \in 1..Len(produced) : produced[i] \in MatchingLines
               \/ ret = Err("TransportUnavailable") /\ lastEv = "open_err"
               \/ ret = Err("TransportWriteError") /\ lastEv = "write_err"
               \/ ret = Err("TransportReadError") /\ lastEv = "recv_err"
        /\ ( /\ lastEv \in {"write_ok", "recv_ok"}
             /\ \A i \in 1..Len(produced) : produced[i] \notin MatchingLines )
               => (pc = "recv" /\ ret = NoRet)

Wit_C10 ==
    /\ op = "wait_for_lte" /\ pc = "recv" /\ ret = NoRet
    /\ nNone >= 2 /\ Len(produced) >= 3

\* C11: in wait_for_lte the transport events are open, one write of
\* "AT+CEREG=2", then receives: nothing is received before the write has
\* succeeded, nothing else is ever written, also after the return on a
\* connected indication, and a failure of open or of the write is returned
\* with no receive made.
Thm_C11 ==
    op = "wait_for_lte" =>
        /\ pc \in {"open", "write"} =>
               (written = <<>> /\ nRecv = 0 /\ lastEv # "write_ok")
        /\ (pc = "recv" \/ nRecv > 0) =>
               (written = <<"AT+CEREG=2">> /\ lastEv \notin {"open_err", "write_err"})
        /\ written \in {<<>>, <<"AT+CEREG=2">>}
        /\ (pc = "done" /\ ret = Ok("unit")) => written = <<"AT+CEREG=2">>
        /\ lastEv = "open_err" =>
               (pc = "done" /\ ret = Err("TransportUnavailable") /\ nRecv = 0 /\ written = <<>>)
        /\ lastEv = "write_err" =>
               (pc = "done" /\ ret = Err("TransportWriteError") /\ nRecv = 0 /\ written = <<>>)

Wit_C11 ==
    /\ op = "wait_for_lte" /\ pc = "done" /\ ret = Ok("unit")
    /\ nRecv >= 3 /\ nNone >= 1 /\ Len(produced) >= 2
    /\ written = <<"AT+CEREG=2">>

\* C12: a receive error in the loop of wait_for_lte ends the operation in
\* that step with Err(TransportReadError); the only step after it is the
\* caller going on: no receive, no suspension, no Ok.
Thm_C12 ==
    [][ /\ (op' = "wait_for_lte" /\ lastEv' = "recv_err")
               => (pc' = "done" /\ ret' = Err("TransportReadError"))
        /\ (op = "wait_for_lte" /\ lastEv = "recv_err")
               => (pc' = "idle" /\ nRecv' <= nRecv /\ nWfe' <= nWfe /\ ret' # Ok("unit")) ]_vars

Wit_C12 ==
    /\ op = "wait_for_lte" /\ pc = "done" /\ ret = Err("TransportReadError")
    /\ lastEv = "recv_err"
    /\ nRecv >= 3 /\ nNone >= 1 /\ produced # <<>>

\* the position of the first line of the chunk received last that begins
\* with a connected indication, or 0
FirstMatch(ls) ==
    LET at == {i \in 1..Len(ls) : ls[i] \in MatchingLines}
    IN  IF at = {} THEN 0 ELSE Min(at)

\* C14: Connected is terminal.  After a chunk with a matching line,
\* wait_for_lte has examined the lines of the chunk up to and including the
\* first matching one, in order, and none after it, and has returned Ok;
\* after a chunk without one it has examined all its lines.  Once it has
\* returned Ok the only step is the caller going on: no receive and no
\* suspension follows.
Thm_C14 ==
    [][ /\ (op' = "wait_for_lte" /\ chunkLines' # <<>>) =>
               IF FirstMatch(chunkLines') > 0
               THEN /\ examined' = SubSeq(chunkLines', 1, FirstMatch(chunkLines'))
                    /\ pc' = "done" /\ ret' = Ok("unit")
               ELSE examined' = chunkLines'
        /\ (op = "wait_for_lte" /\ pc = "done" /\ ret = Ok("unit")) =>
               (pc' = "idle" /\ nRecv' <= nRecv /\ nWfe' <= nWfe) ]_vars

Wit_C14 ==
    /\ op = "wait_for_lte" /\ pc = "done" /\ ret = Ok("unit")
    /\ Len(chunkLines) = 2
    /\ chunkLines[1] = "+CEREG: 5" /\ chunkLines[2] = "+CEREG: 2"
    /\ examined = <<"+CEREG: 5">>

\* C13: once the modem has produced a line that begins with a connected
\* indication and the transport, which has not failed, has delivered every
\* byte the modem produced, however cut into chunks, wait_for_lte has
\* returned Ok.
Claim_C13 ==
    ( /\ op = "wait_for_lte" /\ fault = "none"
      /\ lastEv = "recv_ok"
      /\ \E i \in 1..Len(produced) : produced[i] \in MatchingLines
      /\ pending = "" )
    => (pc = "done" /\ ret = Ok("unit"))

\* the chunk "+CEREG: 1" and then the chunk of its terminator "\n" have been
\* received, and wait_for_lte is still in its loop
Wit_C13 ==
    /\ op = "wait_for_lte" /\ pc = "recv" /\ ret = NoRet /\ fault = "none"
    /\ produced = <<"+CEREG: 1">> /\ pending = ""
    /\ nRecv = 2 /\ nNone = 0 /\ lastEv = "recv_ok"
    /\ sliceEnd = << 0, 0 >>

\* C15: whatever length recv has reported, the slice bound `length - 1` of
\* wait_for_lte was computed without overflow and lies within 0..128.
Claim_C15 ==
    op = "wait_for_lte" => (fault = "none" /\ InBuf(sliceEnd))

\* recv has reported Some(0) to a build that wraps: the bound is 0xFFFF_FFFF
Wit_C15 ==
    /\ op = "wait_for_lte" /\ pc = "panic"
    /\ fault = "slice_out_of_range"
    /\ sliceEnd = << 65535, 65535 >>

\* the lines given to on_line that begin with the triple of a known mode
KnownCalls == {i \in 1..Len(calls) : \E m \in SystemMode : HasTriple(calls[i], m)}

\* the mode whose triple line l begins with
ModeOfLine(l) == CHOOSE m \in SystemMode : HasTriple(l, m)

\* C16: when the executor succeeds, after any number of informational lines,
\* get_system_mode returns Ok(m) exactly when some delivered line began with
\* a known prefix, m being the mode of the last such line, and
\* UnrecognisedValue otherwise; lines of no known prefix, before or after,
\* change nothing.
Thm_C16 ==
    (op = "get_system_mode" /\ pc = "done" /\ execRet = Ok("unit")) =>
        IF KnownCalls = {}
        THEN ret = Err("UnrecognisedValue")
        ELSE ret = Ok(ModeOfLine(calls[Max(KnownCalls)]))

Wit_C16 ==
    /\ op = "get_system_mode" /\ pc = "done" /\ execRet = Ok("unit")
    /\ Len(calls) = 2
    /\ calls[1] = "%XSYSTEMMODE: 0,1,1,0"
    /\ ~(\E m \in SystemMode : HasTriple(calls[2], m))
    /\ ret = Ok("NbIotAndGnss")

\* the command of on, flight_mode and off
CfunOf(o) ==
    CASE o = "on"          -> "AT+CFUN=1"
      [] o = "flight_mode" -> "AT+CFUN=4"
      [] o = "off"         -> "AT+CFUN=0"

\* C17: on, flight_mode and off write the one command "AT+CFUN=1",
\* "AT+CFUN=4", "AT+CFUN=0" and no other, and return Ok exactly when the
\* executor succeeded, else the executor's error, whatever lines on_line was
\* given.
Thm_C17 ==
    op \in {"on", "flight_mode", "off"} =>
        /\ written \in {<<>>, <<CfunOf(op)>>}
        /\ (pc = "recv" \/ nRecv > 0) => written = <<CfunOf(op)>>
        /\ result = Err("UnrecognisedValue")
        /\ pc = "done" =>
               /\ execRet # NoRet
               /\ ret = (IF execRet = Ok("unit") THEN Ok("unit") ELSE execRet)

Wit_C17 ==
    /\ op = "flight_mode" /\ pc = "done"
    /\ written = <<"AT+CFUN=4">>
    /\ Len(calls) = 2
    /\ ret = Ok("unit")

\* C18: a session is open exactly while an operation is between its open and
\* its return: none is open when an operation opens its own, so at most one
\* is open at any time, and none is open once wait_for_lte, or any other
\* operation, has returned, with Ok or with Err.
Thm_C18 ==
    /\ sessionOpen <=> pc \in {"write", "recv"}
    /\ (op = "wait_for_lte" /\ pc = "done") => ~sessionOpen

Wit_C18 ==
    /\ op = "wait_for_lte" /\ pc = "done" /\ ~sessionOpen
    /\ lastEv = "recv_err" /\ ret = Err("TransportReadError")
    /\ nRecv >= 2
    /\ lastSet # "none"

====
